---------------------------- MODULE Spec2Model ----------------------------
(***************************************************************************)
(* Model of webhook-app/webhook_helper.py: the X-Hub-Signature verifier    *)
(* (check_signature) and the webhook event dispatcher (listen, process).   *)
(*                                                                         *)
(* Python strings are sequences of one-character strings; byte strings are *)
(* sequences of integers 0..255.  The SHA-1 of hashlib is replaced by a    *)
(* hash of DigestLen hexadecimal digits; the HMAC construction and the     *)
(* lowercase hexadecimal encoding around it are kept.                      *)
(***************************************************************************)
EXTENDS Integers, Sequences, FiniteSets, TLC

(***************************************************************************)
(* Bounds of the model.                                                    *)
(***************************************************************************)
\* Number of hexadecimal digits of the reduced digest (40 for real SHA-1).
DigestLen == 2

\* Number of listen(event)(f) calls a behaviour may make.
MaxListen == 3

(***************************************************************************)
(* Python values.                                                          *)
(***************************************************************************)
PyNone == [t |-> "NoneType", v |-> <<>>]

PyStr(s) == [t |-> "str", v |-> s]

\* Python truthiness of None and of str (line 30's `not header_signature`).
Truthy(x) == x.t = "str" /\ x.v # <<>>

NonAscii == "U+00E9"

HexChars == <<"0", "1", "2", "3", "4", "5", "6", "7",
              "8", "9", "a", "b", "c", "d", "e", "f">>

HexSet == {HexChars[i] : i \in 1..16}

UpperOf(c) ==
    CASE c = "a" -> "A" [] c = "b" -> "B" [] c = "c" -> "C"
      [] c = "d" -> "D" [] c = "e" -> "E" [] c = "f" -> "F"
      [] OTHER -> c

Upper(s) == [i \in 1..Len(s) |-> UpperOf(s[i])]

(***************************************************************************)
(* hmac.new(secret, msg=request_body, digestmod=hashlib.sha1).hexdigest()  *)
(***************************************************************************)
RECURSIVE Pow(_, _)
Pow(b, n) == IF n = 0 THEN 1 ELSE b * Pow(b, n - 1)

DigestSpace == Pow(16, DigestLen)

RECURSIVE Xor(_, _, _)
\* Bitwise exclusive or of the low `bits` bits of a and b.
Xor(a, b, bits) ==
    IF bits = 0 THEN 0
    ELSE ((a + b) % 2) + 2 * Xor(a \div 2, b \div 2, bits - 1)

RECURSIVE sha1_update(_, _)
\* The reduced hash: absorb the bytes of msg into the state h, left to right.
sha1_update(h, msg) ==
    IF msg = <<>> THEN h
    ELSE sha1_update((h * 33 + Head(msg) + 1 + (h \div 16)) % DigestSpace, Tail(msg))

sha1(msg) == sha1_update(5 % DigestSpace, msg)

RECURSIVE digest_bytes(_)
\* The digest as a byte string, most significant byte first.
digest_bytes(n) ==
    IF n < 256 THEN <<n>> ELSE digest_bytes(n \div 256) \o <<n % 256>>

\* The key block of HMAC: a key longer than the block is hashed, then the key
\* is padded with zero bytes to the block length (4 bytes here; 64 for SHA-1).
hmac_key_block(key) ==
    LET k == IF Len(key) > 4 THEN digest_bytes(sha1(key)) ELSE key
    IN  [i \in 1..4 |-> IF i <= Len(k) THEN k[i] ELSE 0]

hmac_pad(key, pad) == [i \in 1..4 |-> Xor(hmac_key_block(key)[i], pad, 8)]

\* HMAC(K, m) = H((K xor opad) || H((K xor ipad) || m)), ipad 0x36, opad 0x5c.
hmac_new(key, msg) ==
    sha1(hmac_pad(key, 92) \o digest_bytes(sha1(hmac_pad(key, 54) \o msg)))

RECURSIVE hex(_, _)
\* n as exactly `digits` lowercase hexadecimal digits.
hex(n, digits) ==
    IF digits = 0 THEN <<>>
    ELSE hex(n \div 16, digits - 1) \o <<HexChars[(n % 16) + 1]>>

hexdigest(n) == hex(n, DigestLen)

(***************************************************************************)
(* str.split('=') and the two-name unpacking of line 33.                   *)
(***************************************************************************)
RECURSIVE SplitFrom(_, _, _)
\* The parts of s separated by sep, cur being the part under construction.
SplitFrom(s, sep, cur) ==
    IF s = <<>> THEN <<cur>>
    ELSE IF Head(s) = sep THEN <<cur>> \o SplitFrom(Tail(s), sep, <<>>)
    ELSE SplitFrom(Tail(s), sep, Append(cur, Head(s)))

\* Fault: a header without separator yields an empty second part.
MutSplitFirst(s, sep) ==
    LET ps == SplitFrom(s, sep, <<>>)
    IN  IF Len(ps) = 1 THEN <<ps[1], <<>>>> ELSE ps

RECURSIVE SplitOnceFrom(_, _, _)
SplitOnceFrom(s, sep, cur) ==
    IF s = <<>> THEN <<cur>>
    ELSE IF Head(s) = sep THEN <<cur, Tail(s)>>
    ELSE SplitOnceFrom(Tail(s), sep, Append(cur, Head(s)))

\* Fault: split(sep, 1), which splits at the first separator only.
MutSplitOnce(s, sep) == SplitOnceFrom(s, sep, <<>>)

split(s, sep) == SplitFrom(s, sep, <<>>)

\* hmac.compare_digest on two str: a TypeError unless both are ASCII.
IsAscii(s) == \A i \in 1..Len(s) : s[i] # NonAscii

\* Fault: comparison that ignores letter case.
MutCompareIgnoreCase(a, b) == Upper(a) = Upper(b)

\* Fault: comparison of the first characters only.
MutComparePrefix(a, b) == a # <<>> /\ b # <<>> /\ a[1] = b[1]

compare_digest(a, b) == a = b

\* Fault: `header_signature is None` in place of `not header_signature`.
MutHeaderIsNone(h) == h.t = "NoneType"

\* Line 30: `not header_signature`.
header_missing(h) == ~Truthy(h)

\* Fault: any algorithm name beginning with "sha" is accepted.
MutAnySha(a) == Len(a) >= 3 /\ SubSeq(a, 1, 3) = <<"s", "h", "a">>

\* Line 35: `algorithm != 'sha1'`, negated.
algorithm_supported(a) == a = <<"s", "h", "a", "1">>

\* Fault: the digest is not keyed with the secret.
MutDigestOfBodyOnly(key, msg) == hexdigest(sha1(msg))

\* Lines 38-39.
compute_body_digest(key, msg) == hexdigest(hmac_new(key, msg))


(***************************************************************************)
(* State.                                                                  *)
(***************************************************************************)
VARIABLES
    sig_pc,              \* position in check_signature, or its way out
    secret,              \* argument of check_signature
    header_signature,    \* argument of check_signature: None or a str
    request_body,        \* argument of check_signature
    algorithm,           \* local of check_signature (line 33)
    signature_digest,    \* local of check_signature (line 33)
    body_digest,         \* local of check_signature (line 38)
    sig_return,          \* value returned by check_signature, if any
    sig_raised,          \* exception raised by check_signature, if any
    sig_steps,           \* the statements check_signature has executed
    sig_prev,            \* how an earlier call with the same arguments ended
    web_hook_event_map,  \* _web_hook_event_map: event -> list of functions
    listen_log,          \* every listen(event)(f) call so far, in call order
    req                  \* the frame of each process(request) call; n0 is
                         \* the length of `functions` at line 76

sig_vars == <<sig_pc, secret, header_signature, request_body, algorithm,
              signature_digest, body_digest, sig_return, sig_raised, sig_steps,
              sig_prev>>

disp_vars == <<web_hook_event_map, listen_log, req>>

vars == <<sig_pc, secret, header_signature, request_body, algorithm,
          signature_digest, body_digest, sig_return, sig_raised, sig_steps,
          sig_prev, web_hook_event_map, listen_log, req>>

(***************************************************************************)
(* Exceptions of check_signature.                                          *)
(***************************************************************************)
NoException == [type |-> "", msg |-> "", arg |-> <<>>]

\* Line 31.
NoHeaderError ==
    [type |-> "ValueError", msg |-> "No X-Hub-Signature header.", arg |-> <<>>]

\* Line 33: unpacking a list of n # 2 parts into two names.
UnpackError(n) ==
    [type |-> "ValueError",
     msg  |-> IF n < 2 THEN "not enough values to unpack (expected 2, got 1)"
                       ELSE "too many values to unpack (expected 2)",
     arg  |-> <<>>]

\* Line 36.
UnsupportedError(a) ==
    [type |-> "ValueError", msg |-> "Unsupported digest algorithm {}.", arg |-> a]

\* Line 41: hmac.compare_digest refuses a str with non-ASCII characters.
CompareTypeError ==
    [type |-> "TypeError",
     msg  |-> "comparing strings with non-ASCII characters is not supported",
     arg  |-> <<>>]

\* Line 42.
MismatchError ==
    [type |-> "ValueError", msg |-> "Body digest did not match signature digest",
     arg |-> <<>>]

\* The failure kinds of the error taxonomy, by the raise that produces them.
MissingSignature(e) == e = NoHeaderError

MalformedSignatureHeader(e) == e = UnpackError(1) \/ e = UnpackError(3)

UnsupportedAlgorithm(e) == e.type = "ValueError" /\ e.msg = UnsupportedError(<<>>).msg

SignatureMismatch(e) == e = MismatchError

(***************************************************************************)
(* Inputs of check_signature.                                              *)
(***************************************************************************)
Secrets == {<<>>, <<116>>, <<116, 111>>}

Bodies == {<<>>, <<123>>, <<123, 125>>}

SHA1Name == <<"s", "h", "a", "1">>

AlgorithmNames ==
    {SHA1Name, <<"m", "d", "5">>, <<"S", "H", "A", "1">>, <<"s", "h", "a">>, <<>>}

\* The digests HMAC produces for the inputs of the model.
GenuineDigests == {hexdigest(hmac_new(k, m)) : k \in Secrets, m \in Bodies}

\* d with the character at position i replaced by c.
Replace(d, i, c) == [d EXCEPT ![i] = c]

PresentedDigests ==
    GenuineDigests
    \cup {Replace(d, i, c) : d \in GenuineDigests, i \in 1..DigestLen, c \in HexSet}
    \cup {Upper(d) : d \in GenuineDigests}
    \cup {SubSeq(d, 1, DigestLen - 1) : d \in GenuineDigests}
    \cup {d \o <<"0">> : d \in GenuineDigests}
    \cup {Replace(d, 1, NonAscii) : d \in GenuineDigests}
    \cup {[i \in 1..DigestLen |-> "0"], <<>>}

HeaderStrings ==
    {a \o <<"=">> \o d : a \in AlgorithmNames, d \in PresentedDigests}
    \cup {a \o d : a \in AlgorithmNames, d \in GenuineDigests}
    \cup {a \o <<"=">> \o d \o <<"=">> : a \in AlgorithmNames, d \in GenuineDigests}
    \cup {a \o <<"=">> \o d \o <<"=", "a">> : a \in AlgorithmNames, d \in GenuineDigests}
    \cup AlgorithmNames
    \cup {<<"=">>, <<"=", "=">>}

HeaderValues == {PyNone} \cup {PyStr(s) : s \in HeaderStrings}

(***************************************************************************)
(* check_signature(secret, header_signature, request_body), lines 29-44.   *)
(***************************************************************************)
\* No earlier call is on record.
NoEarlierCall == [called |-> FALSE, pc |-> "", return |-> "None", raised |-> NoException]

SigIdle ==
    /\ sig_pc = "idle"
    /\ secret = <<>>
    /\ header_signature = PyNone
    /\ request_body = <<>>
    /\ algorithm = <<>>
    /\ signature_digest = <<>>
    /\ body_digest = <<>>
    /\ sig_return = "None"
    /\ sig_raised = NoException
    /\ sig_steps = <<>>
    /\ sig_prev = NoEarlierCall

\* The call: the arguments are bound and control is at line 30.
SigCalled ==
    /\ sig_pc = "line30"
    /\ secret \in Secrets
    /\ header_signature \in HeaderValues
    /\ request_body \in Bodies
    /\ algorithm = <<>>
    /\ signature_digest = <<>>
    /\ body_digest = <<>>
    /\ sig_return = "None"
    /\ sig_raised = NoException
    /\ sig_steps = <<>>
    /\ sig_prev = NoEarlierCall

\* Fault: the failure is recorded but the function returns instead of raising.
MutReturnInstead(e) ==
    /\ sig_pc' = "returned"
    /\ sig_raised' = e

SigRaise(e) ==
    /\ sig_pc' = "raised"
    /\ sig_raised' = e

\* Lines 30-31.
CheckHeaderPresent ==
    /\ sig_pc = "line30"
    /\ sig_steps' = Append(sig_steps, "truth")
    /\ IF header_missing(header_signature)
       THEN SigRaise(NoHeaderError)
       ELSE sig_pc' = "line33" /\ UNCHANGED sig_raised
    /\ UNCHANGED <<secret, header_signature, request_body, algorithm,
                   signature_digest, body_digest, sig_return>>
    /\ UNCHANGED sig_prev
    /\ UNCHANGED disp_vars

\* Line 33.
SplitHeader ==
    /\ sig_pc = "line33"
    /\ sig_steps' = Append(sig_steps, "split")
    /\ LET parts == split(header_signature.v, "=")
       IN  IF Len(parts) # 2
           THEN /\ SigRaise(UnpackError(Len(parts)))
                /\ UNCHANGED <<algorithm, signature_digest>>
           ELSE /\ algorithm' = parts[1]
                /\ signature_digest' = parts[2]
                /\ sig_pc' = "line35"
                /\ UNCHANGED sig_raised
    /\ UNCHANGED <<secret, header_signature, request_body, body_digest, sig_return>>
    /\ UNCHANGED sig_prev
    /\ UNCHANGED disp_vars

\* Fault: the algorithm test depends on module state that other calls change.
MutCheckAlgorithmGlobal ==
    /\ sig_pc = "line35"
    /\ sig_steps' = Append(sig_steps, "algorithm")
    /\ IF ~algorithm_supported(algorithm) \/ listen_log # <<>>
       THEN SigRaise(UnsupportedError(algorithm))
       ELSE sig_pc' = "line38" /\ UNCHANGED sig_raised
    /\ UNCHANGED <<secret, header_signature, request_body, algorithm,
                   signature_digest, body_digest, sig_return>>
    /\ UNCHANGED sig_prev
    /\ UNCHANGED disp_vars

\* Lines 35-36.
CheckAlgorithm ==
    /\ sig_pc = "line35"
    /\ sig_steps' = Append(sig_steps, "algorithm")
    /\ IF ~algorithm_supported(algorithm)
       THEN SigRaise(UnsupportedError(algorithm))
       ELSE sig_pc' = "line38" /\ UNCHANGED sig_raised
    /\ UNCHANGED <<secret, header_signature, request_body, algorithm,
                   signature_digest, body_digest, sig_return>>
    /\ UNCHANGED sig_prev
    /\ UNCHANGED disp_vars

\* Lines 38-39.
ComputeBodyDigest ==
    /\ sig_pc = "line38"
    /\ sig_steps' = Append(sig_steps, "hmac")
    /\ body_digest' = compute_body_digest(secret, request_body)
    /\ sig_pc' = "line41"
    /\ UNCHANGED <<secret, header_signature, request_body, algorithm,
                   signature_digest, sig_return, sig_raised>>
    /\ UNCHANGED sig_prev
    /\ UNCHANGED disp_vars

\* Lines 41-44.
CompareDigests ==
    /\ sig_pc = "line41"
    /\ sig_steps' = Append(sig_steps, "compare")
    /\ IF ~(IsAscii(body_digest) /\ IsAscii(signature_digest))
       THEN SigRaise(CompareTypeError) /\ UNCHANGED sig_return
       ELSE IF ~compare_digest(body_digest, signature_digest)
       THEN SigRaise(MismatchError) /\ UNCHANGED sig_return
       ELSE sig_pc' = "returned" /\ sig_return' = "True" /\ UNCHANGED sig_raised
    /\ UNCHANGED <<secret, header_signature, request_body, algorithm,
                   signature_digest, body_digest>>
    /\ UNCHANGED sig_prev
    /\ UNCHANGED disp_vars

SigFinished == sig_pc \in {"returned", "raised"}

SigSucceeded == sig_pc = "returned" /\ sig_return = "True" /\ sig_raised = NoException

SigFailed == sig_pc = "raised" /\ sig_raised # NoException /\ sig_return = "None"

(***************************************************************************)
(* The specification of check_signature: the arguments are drawn from the  *)
(* input sets, then the function runs statement by statement.              *)
(***************************************************************************)
EmptyDict == [k \in {} |-> ""]

Requests == {"r1", "r2"}

IdleFrame ==
    [pc |-> "idle", headers |-> EmptyDict, data |-> "", event |-> "",
     it |-> 0, n0 |-> 0, result |-> "None", raised |-> "None", calls |-> <<>>]

\* Module import: line 62, `_web_hook_event_map = defaultdict(list)`.
DispatcherInit ==
    /\ web_hook_event_map = EmptyDict
    /\ listen_log = <<>>
    /\ req = [r \in Requests |-> IdleFrame]

InitSig == SigCalled /\ DispatcherInit

NextSig ==
    \/ CheckHeaderPresent
    \/ SplitHeader
    \/ CheckAlgorithm
    \/ ComputeBodyDigest
    \/ CompareDigests

SpecSig == InitSig /\ [][NextSig]_vars

(***************************************************************************)
(* Handlers.  The dispatcher treats them as opaque callables; the model    *)
(* has one handler for each way a callable can end.                        *)
(***************************************************************************)
Handlers == {"returns_none", "returns_x", "returns_empty", "raises", "registers"}

\* What f(data) returns, for the handlers that return.
HandlerResult(f) ==
    CASE f = "returns_x"     -> "{'x': 1}"
      [] f = "returns_empty" -> "{}"
      [] OTHER               -> "None"

HandlerRaises(f) == f = "raises"

\* The exception that f(data) raises, for the handler that raises.
HandlerException(f) == IF f = "raises" THEN "HandlerError" ELSE "None"

\* The handler "registers" calls listen('push')(returns_none), returns None.
HandlerRegisters(f) == f = "registers"

EventNames == {"ping", "push"}

\* Values of the X-GitHub-Event header; the header may also be absent.
EventHeaders == {"ping", "push", "unknown_event"}

Payloads == {"payload1", "payload2"}

RequestHeaders ==
    {EmptyDict} \cup {[k \in {"X-GitHub-Event"} |-> e] : e \in EventHeaders}

(***************************************************************************)
(* dict and list operations.                                               *)
(***************************************************************************)
\* defaultdict(list).__getitem__: a missing key is inserted with a new list.
defaultdict_getitem(m, key) ==
    IF key \in DOMAIN m THEN m ELSE m @@ (key :> <<>>)

\* Fault: insertion at the front of the list.
MutPrepend(l, f) == <<f>> \o l

list_append(l, f) == Append(l, f)

\* Fault: another default event name.
MutGetPush(h, key, default) == IF key \in DOMAIN h THEN h[key] ELSE "push"

\* dict.get(key, default).
headers_get(h, key, default) == IF key \in DOMAIN h THEN h[key] ELSE default

\* The registry after listen(event)(f): line 68.
registered(m, event, f) ==
    LET m1 == defaultdict_getitem(m, event)
    IN  [m1 EXCEPT ![event] = list_append(m1[event], f)]

(***************************************************************************)
(* listen(event)(f), lines 65-70.                                          *)
(***************************************************************************)
Listen(event, f) ==
    /\ Len(listen_log) < MaxListen
    /\ web_hook_event_map' = registered(web_hook_event_map, event, f)
    /\ listen_log' = Append(listen_log, <<event, f>>)
    /\ UNCHANGED req
    /\ UNCHANGED sig_vars

(***************************************************************************)
(* process(request), lines 73-87.                                          *)
(***************************************************************************)
\* A request arrives and process(request) is called with it.
Receive(r, h, d) ==
    /\ req[r].pc = "idle"
    /\ req' = [req EXCEPT ![r] = [IdleFrame EXCEPT !.pc = "line75",
                                                   !.headers = h,
                                                   !.data = d]]
    /\ UNCHANGED <<web_hook_event_map, listen_log>>
    /\ UNCHANGED sig_vars

\* Lines 75-80: the event name, the list held for it, the payload.
ProcessLookup(r) ==
    /\ req[r].pc = "line75"
    /\ LET event == headers_get(req[r].headers, "X-GitHub-Event", "ping")
       IN  /\ web_hook_event_map' = defaultdict_getitem(web_hook_event_map, event)
           /\ req' = [req EXCEPT ![r].pc = "line82",
                                 ![r].event = event,
                                 ![r].n0 = Len(web_hook_event_map'[event])]
    /\ UNCHANGED listen_log
    /\ UNCHANGED sig_vars

RECURSIVE Reverse(_)
Reverse(l) == IF l = <<>> THEN <<>> ELSE Append(Reverse(Tail(l)), Head(l))

\* Fault: the handlers in reverse order.
MutReversed(r) == Reverse(web_hook_event_map[req[r].event])

\* Fault: the loop runs over a copy of the list taken at line 76.
MutSnapshot(r) == SubSeq(web_hook_event_map[req[r].event], 1, req[r].n0)

\* `functions` of line 76 is the list object held by the map, not a copy.
functions(r) == web_hook_event_map[req[r].event]

\* Fault: the result of a handler never ends the loop.
MutNeverStop(result) == FALSE

\* Fault: `if result:`, which takes an empty object for no result.
MutTruthy(result) == result \notin {"None", "{}"}

\* Line 84: `result is not None`.
is_not_none(result) == result # "None"

\* Fault: a handler is passed another payload.
MutOtherPayload(r) == CHOOSE d \in Payloads : d # req[r].data

\* Fault: `data` is a module global shared by the calls in progress.
MutSharedData(r) ==
    LET o == CHOOSE x \in Requests : x # r
    IN  IF req[o].pc # "idle" THEN req[o].data ELSE req[r].data

\* Line 83: the argument of every call is `data`.
call_argument(r) == req[r].data

\* Lines 82-85, one turn of the loop whose handler returns.
ProcessCall(r) ==
    /\ req[r].pc = "line82"
    /\ req[r].it < Len(functions(r))
    /\ LET f      == functions(r)[req[r].it + 1]
           call   == [f |-> f, arg |-> call_argument(r)]
           result == HandlerResult(f)
       IN  /\ ~HandlerRaises(f)
           /\ IF HandlerRegisters(f)
              THEN /\ Len(listen_log) < MaxListen
                   /\ web_hook_event_map' =
                          registered(web_hook_event_map, "push", "returns_none")
                   /\ listen_log' = Append(listen_log, <<"push", "returns_none">>)
              ELSE UNCHANGED <<web_hook_event_map, listen_log>>
           /\ IF is_not_none(result)
              THEN req' = [req EXCEPT ![r].pc = "returned",
                                      ![r].result = result,
                                      ![r].it = @ + 1,
                                      ![r].calls = Append(@, call)]
              ELSE req' = [req EXCEPT ![r].it = @ + 1,
                                      ![r].calls = Append(@, call)]
    /\ UNCHANGED sig_vars

\* Fault: the loop catches the exception of a handler and goes on.
MutCatchAndContinue(r) ==
    /\ req[r].pc = "line82"
    /\ req[r].it < Len(functions(r))
    /\ LET f    == functions(r)[req[r].it + 1]
           call == [f |-> f, arg |-> call_argument(r)]
       IN  /\ HandlerRaises(f)
           /\ req' = [req EXCEPT ![r].it = @ + 1,
                                 ![r].calls = Append(@, call)]
    /\ UNCHANGED <<web_hook_event_map, listen_log>>
    /\ UNCHANGED sig_vars

\* Line 83, a handler that raises: process does not catch it.
ProcessCallRaises(r) ==
    /\ req[r].pc = "line82"
    /\ req[r].it < Len(functions(r))
    /\ LET f    == functions(r)[req[r].it + 1]
           call == [f |-> f, arg |-> call_argument(r)]
       IN  /\ HandlerRaises(f)
           /\ req' = [req EXCEPT ![r].pc = "raised",
                                 ![r].raised = HandlerException(f),
                                 ![r].it = @ + 1,
                                 ![r].calls = Append(@, call)]
    /\ UNCHANGED <<web_hook_event_map, listen_log>>
    /\ UNCHANGED sig_vars

\* Fault: no default acknowledgement.
MutDefaultNone == "None"

\* Line 87: the default acknowledgement.
default_result == "{'status': 'OK'}"

\* Line 87: the list is exhausted.
ProcessDefault(r) ==
    /\ req[r].pc = "line82"
    /\ req[r].it >= Len(functions(r))
    /\ req' = [req EXCEPT ![r].pc = "returned", ![r].result = default_result]
    /\ UNCHANGED <<web_hook_event_map, listen_log>>
    /\ UNCHANGED sig_vars

\* The caller is done with the outcome; the request's frame is gone.
Finish(r) ==
    /\ req[r].pc \in {"returned", "raised"}
    /\ req' = [req EXCEPT ![r] = IdleFrame]
    /\ UNCHANGED <<web_hook_event_map, listen_log>>
    /\ UNCHANGED sig_vars

(***************************************************************************)
(* The specification of the dispatcher: registrations and one request at a *)
(* time, in any interleaving.                                              *)
(***************************************************************************)
Init == SigIdle /\ DispatcherInit

Next ==
    \/ \E event \in EventNames, f \in Handlers : Listen(event, f)
    \/ \E h \in RequestHeaders, d \in Payloads : Receive("r1", h, d)
    \/ ProcessLookup("r1")
    \/ ProcessCall("r1")
    \/ ProcessCallRaises("r1")
    \/ ProcessDefault("r1")
    \/ Finish("r1")

Spec == Init /\ [][Next]_vars

(***************************************************************************)
(* Properties of check_signature (specification SpecSig).                  *)
(***************************************************************************)
\* "sha1=" followed by the lowercase hexadecimal HMAC of body under key.
ValidHeader(key, body) == SHA1Name \o <<"=">> \o hexdigest(hmac_new(key, body))

HasChar(s, c) == \E i \in 1..Len(s) : s[i] = c

\* The position of the first "=" of s (s holds one).
FirstEq(s) == CHOOSE i \in 1..Len(s) : s[i] = "=" /\ \A j \in 1..(i - 1) : s[j] # "="

\* C1: for every secret and body, check_signature called with the header
\* "sha1=" + HMAC_SHA1_hex(secret, body) returns True and raises nothing.
C1_ValidSignatureAccepted ==
    (SigFinished /\ header_signature = PyStr(ValidHeader(secret, request_body)))
        => SigSucceeded

C1_Witness ==
    /\ SigSucceeded
    /\ secret # <<>>
    /\ request_body # <<>>
    /\ header_signature = PyStr(ValidHeader(secret, request_body))

\* C2: check_signature returns only on a match.  When it returns, it returns
\* True and the header is exactly "sha1=" + the lowercase hexadecimal HMAC of
\* the body under the secret; for every other header it ends by raising, with
\* no value returned (never False).
C2_SuccessOnlyOnMatch ==
    /\ SigFinished => (SigSucceeded \/ SigFailed)
    /\ sig_pc = "returned"
           => header_signature = PyStr(ValidHeader(secret, request_body))
    /\ (SigFinished /\ header_signature # PyStr(ValidHeader(secret, request_body)))
           => SigFailed

\* Rejected: the genuine digest of another (secret, body), and the valid
\* digest in upper case.
C2_Witness ==
    /\ SigFailed
    /\ sig_raised = MismatchError
    /\ algorithm = SHA1Name
    /\ \/ \E k \in Secrets, m \in Bodies :
              /\ <<k, m>> # <<secret, request_body>>
              /\ signature_digest = hexdigest(hmac_new(k, m))
       \/ /\ signature_digest = Upper(hexdigest(hmac_new(secret, request_body)))
          /\ Len(signature_digest) = DigestLen

\* The header is the valid one with the hexadecimal character at one position
\* of the digest replaced by a different hexadecimal character.
OneCharFlipped ==
    /\ header_signature.t = "str"
    /\ \E i \in 1..DigestLen, c \in HexSet :
           LET d == hexdigest(hmac_new(secret, request_body))
           IN  /\ c # d[i]
               /\ header_signature.v = SHA1Name \o <<"=">> \o Replace(d, i, c)

\* C3: replacing any single hexadecimal character of the valid digest by a
\* different one makes check_signature fail with SignatureMismatch, and with
\* no other failure kind.
C3_FlippedCharMismatch ==
    (SigFinished /\ OneCharFlipped)
        => /\ SigFailed
           /\ SignatureMismatch(sig_raised)
           /\ ~MissingSignature(sig_raised)
           /\ ~MalformedSignatureHeader(sig_raised)
           /\ ~UnsupportedAlgorithm(sig_raised)

\* The last character of the digest is the one replaced.
C3_Witness ==
    /\ SigFailed
    /\ SignatureMismatch(sig_raised)
    /\ OneCharFlipped
    /\ Len(signature_digest) = DigestLen
    /\ \A i \in 1..(DigestLen - 1) : signature_digest[i] = body_digest[i]

\* C4: with an absent (None) or empty header, check_signature fails with
\* MissingSignature for every secret and body, having executed only the test
\* of line 30: no split, no algorithm check, no digest computation.
C4_MissingSignatureFirst ==
    (sig_pc \notin {"idle", "line30"} /\ header_signature \in {PyNone, PyStr(<<>>)})
        => /\ SigFailed
           /\ MissingSignature(sig_raised)
           /\ sig_steps = <<"truth">>
           /\ algorithm = <<>>
           /\ signature_digest = <<>>
           /\ body_digest = <<>>

C4_Witness ==
    /\ SigFailed
    /\ header_signature = PyNone
    /\ secret # <<>>
    /\ MissingSignature(sig_raised)

\* C5: a non-empty header with no "=" makes check_signature fail with
\* MalformedSignatureHeader, which is none of MissingSignature,
\* UnsupportedAlgorithm and SignatureMismatch.
C5_NoSeparatorMalformed ==
    (/\ SigFinished
     /\ header_signature.t = "str"
     /\ header_signature.v # <<>>
     /\ ~HasChar(header_signature.v, "="))
        => /\ SigFailed
           /\ MalformedSignatureHeader(sig_raised)
           /\ ~MissingSignature(sig_raised)
           /\ ~UnsupportedAlgorithm(sig_raised)
           /\ ~SignatureMismatch(sig_raised)

\* The header "sha1" alone.
C5_Witness ==
    /\ SigFailed
    /\ header_signature = PyStr(SHA1Name)
    /\ MalformedSignatureHeader(sig_raised)

\* The header is "<algorithm>=<digest>" with an algorithm other than sha1
\* (the digest holds no "=").
OtherAlgorithmHeader ==
    /\ header_signature.t = "str"
    /\ HasChar(header_signature.v, "=")
    /\ LET h == header_signature.v
           i == FirstEq(h)
       IN  /\ SubSeq(h, 1, i - 1) # SHA1Name
           /\ ~HasChar(SubSeq(h, i + 1, Len(h)), "=")

\* C6: a header "<algorithm>=<digest>" whose algorithm is not exactly sha1
\* makes check_signature fail with UnsupportedAlgorithm whatever the digest:
\* the failure comes before the digest is computed or compared.
C6_UnsupportedAlgorithmFirst ==
    (SigFinished /\ OtherAlgorithmHeader)
        => /\ SigFailed
           /\ UnsupportedAlgorithm(sig_raised)
           /\ sig_raised.arg =
                  SubSeq(header_signature.v, 1, FirstEq(header_signature.v) - 1)
           /\ ~SignatureMismatch(sig_raised)
           /\ ~HasChar(sig_steps, "hmac")
           /\ ~HasChar(sig_steps, "compare")

\* "sha=<the correct digest>" is refused as unsupported.
C6_Witness ==
    /\ SigFailed
    /\ UnsupportedAlgorithm(sig_raised)
    /\ algorithm = <<"s", "h", "a">>
    /\ signature_digest = hexdigest(hmac_new(secret, request_body))

(***************************************************************************)
(* Properties of the dispatcher (specification Spec).                      *)
(***************************************************************************)
RECURSIVE RegisteredIn(_, _)
\* The handlers that the listen calls of log registered under event e, in
\* call order.
RegisteredIn(log, e) ==
    IF log = <<>> THEN <<>>
    ELSE IF Head(log)[1] = e THEN <<Head(log)[2]>> \o RegisteredIn(Tail(log), e)
    ELSE RegisteredIn(Tail(log), e)

RegisteredFor(e) == RegisteredIn(listen_log, e)

\* The sequence the registry holds for e; none for a name that is no key.
Held(m, e) == IF e \in DOMAIN m THEN m[e] ELSE <<>>

IsPrefix(a, b) == Len(a) <= Len(b) /\ SubSeq(b, 1, Len(a)) = a

AllEvents == EventNames \cup EventHeaders

\* The request has passed the lookup of lines 75-76.
Dispatching(r) == req[r].pc \in {"line82", "returned", "raised"}

\* The event a request names: its X-GitHub-Event header, "ping" without one.
NamedEvent(r) ==
    IF "X-GitHub-Event" \in DOMAIN req[r].headers
    THEN req[r].headers["X-GitHub-Event"]
    ELSE "ping"

ReturnsValue(f) == ~HandlerRaises(f) /\ HandlerResult(f) # "None"

C8_DefaultAcknowledgement ==
    \A r \in Requests :
        /\ (Dispatching(r) /\ RegisteredFor(req[r].event) = <<>>)
               => /\ req[r].pc # "raised"
                  /\ req[r].calls = <<>>
                  /\ req[r].pc = "returned" => req[r].result = "{'status': 'OK'}"
        /\ (/\ req[r].pc = "returned"
            /\ \A j \in 1..Len(req[r].calls) : ~ReturnsValue(req[r].calls[j].f))
               => req[r].result = "{'status': 'OK'}"
        /\ req[r].pc = "raised"
               => /\ req[r].calls # <<>>
                  /\ HandlerRaises(req[r].calls[Len(req[r].calls)].f)

\* Two handlers registered for the event, both invoked, both returned None.
C8_Witness ==
    /\ req["r1"].pc = "returned"
    /\ req["r1"].result = "{'status': 'OK'}"
    /\ Len(req["r1"].calls) = 2
    /\ RegisteredFor(req["r1"].event) = <<"returns_none", "returns_none">>

\* C9: without an X-GitHub-Event header process dispatches to the handlers
\* registered under "ping", with the header to those registered under the
\* event it names, and to no others: the handlers invoked are a prefix of
\* that event's sequence, and the whole of it when process returns the
\* default acknowledgement.
C9_Dispatched(r) ==
    Dispatching(r) =>
        /\ IsPrefix([j \in 1..Len(req[r].calls) |-> req[r].calls[j].f],
                    RegisteredFor(NamedEvent(r)))
        /\ NamedEvent(r) \in DOMAIN web_hook_event_map

C9_Exhausted(r) ==
    (req[r].pc = "line82" /\ req'[r].pc = "returned"
        /\ req'[r].result = "{'status': 'OK'}")
        => [j \in 1..Len(req'[r].calls) |-> req'[r].calls[j].f]
               = RegisteredFor(NamedEvent(r))

C9_AbsentHeaderIsPing ==
    /\ [](\A r \in Requests : C9_Dispatched(r))
    /\ [][\A r \in Requests : C9_Exhausted(r)]_vars

\* No header; "ping" and "push" hold different handlers; ping's was invoked.
C9_Witness ==
    /\ req["r1"].pc = "returned"
    /\ req["r1"].headers = EmptyDict
    /\ RegisteredFor("ping") = <<"returns_x">>
    /\ RegisteredFor("push") = <<"returns_empty">>
    /\ req["r1"].calls = <<[f |-> "returns_x", arg |-> req["r1"].data]>>
    /\ req["r1"].result = "{'x': 1}"

\* C10: the sequence held for each event is the handlers registered under it
\* in call order, duplicates kept; a step changes the sequence of at most one
\* event, and only by adding at its end: nothing is removed or reordered.
C10_Held ==
    \A e \in AllEvents : Held(web_hook_event_map, e) = RegisteredFor(e)

C10_AppendOnly ==
    /\ DOMAIN web_hook_event_map \subseteq DOMAIN web_hook_event_map'
    /\ \A e \in AllEvents :
           IsPrefix(Held(web_hook_event_map, e), Held(web_hook_event_map', e))
    /\ Cardinality({e \in AllEvents :
           Held(web_hook_event_map, e) # Held(web_hook_event_map', e)}) <= 1

C10_RegistryIsRegistrations == []C10_Held /\ [][C10_AppendOnly]_vars

\* The same handler registered twice under "push", after one under "ping",
\* and invoked twice by one request.
C10_Witness ==
    /\ listen_log = <<<<"ping", "returns_x">>, <<"push", "returns_none">>,
                      <<"push", "returns_none">>>>
    /\ web_hook_event_map["push"] = <<"returns_none", "returns_none">>
    /\ web_hook_event_map["ping"] = <<"returns_x">>
    /\ req["r1"].event = "push"
    /\ req["r1"].calls = <<[f |-> "returns_none", arg |-> req["r1"].data],
                           [f |-> "returns_none", arg |-> req["r1"].data]>>

\* C11: an exception raised by a handler is not caught by process: the call
\* ends with that very exception, the raising handler is the last one invoked
\* for the request, and process returns neither a handler's value nor the
\* default acknowledgement.
C11_HandlerFailurePropagates ==
    \A r \in Requests :
        /\ Dispatching(r) =>
               \A j \in 1..Len(req[r].calls) :
                   HandlerRaises(req[r].calls[j].f)
                       => /\ j = Len(req[r].calls)
                          /\ req[r].pc = "raised"
                          /\ req[r].raised = "HandlerError"
                          /\ req[r].result = "None"
        /\ req[r].pc = "returned" => req[r].raised = "None"

\* [returns_none, raises, returns_x]: the second handler raises and the third
\* is not invoked.
C11_Witness ==
    /\ req["r1"].pc = "raised"
    /\ req["r1"].raised = "HandlerError"
    /\ req["r1"].result = "None"
    /\ RegisteredFor(req["r1"].event) = <<"returns_none", "raises", "returns_x">>
    /\ Len(req["r1"].calls) = 2

(***************************************************************************)
(* The ingress pipeline: for each request the caller runs                  *)
(* check_signature(WEBHOOK_SECRET, signature header, raw body) and, when   *)
(* that call returns, process(request).  An exception of check_signature   *)
(* ends the handling of the request.                                       *)
(***************************************************************************)
\* Line 25: the configured secret.
WEBHOOK_SECRET == <<116, 111>>

\* The handlers registered in the pipeline's behaviours.
PipelineHandlers == {"returns_none", "returns_x", "raises"}

\* Raw bodies of the requests that arrive.
PipelineBodies == {<<123>>, <<123, 125>>}

\* Signature headers of the requests that arrive: none, the valid header of
\* any body, a header without separator, another algorithm.
PipelineSignatures ==
    {PyNone, PyStr(SHA1Name)}
    \cup {PyStr(ValidHeader(WEBHOOK_SECRET, b)) : b \in PipelineBodies}
    \cup {PyStr(<<"m", "d", "5", "=">> \o hexdigest(hmac_new(WEBHOOK_SECRET, <<123>>)))}

\* request.get_json(): the payload is the parsed raw body.
get_json(body) ==
    IF body = <<123>> THEN "payload1" ELSE "payload2"

\* A request arrives: the caller calls check_signature on it.
PipelineArrive(r, sig, body, h) ==
    /\ req[r].pc = "idle"
    /\ sig_pc = "idle"
    /\ req' = [req EXCEPT ![r] = [IdleFrame EXCEPT !.pc = "verifying",
                                                   !.headers = h,
                                                   !.data = get_json(body)]]
    /\ sig_pc' = "line30"
    /\ secret' = WEBHOOK_SECRET
    /\ header_signature' = sig
    /\ request_body' = body
    /\ UNCHANGED <<algorithm, signature_digest, body_digest, sig_return,
                   sig_raised, sig_steps, sig_prev>>
    /\ UNCHANGED <<web_hook_event_map, listen_log>>

\* check_signature returned: the caller calls process(request).
PipelineDispatch(r) ==
    /\ req[r].pc = "verifying"
    /\ sig_pc = "returned"
    /\ req' = [req EXCEPT ![r].pc = "line75"]
    /\ UNCHANGED <<web_hook_event_map, listen_log>>
    /\ UNCHANGED sig_vars

\* check_signature raised: the exception ends the handling of the request.
PipelineAbort(r) ==
    /\ req[r].pc = "verifying"
    /\ sig_pc = "raised"
    /\ req' = [req EXCEPT ![r].pc = "rejected"]
    /\ UNCHANGED <<web_hook_event_map, listen_log>>
    /\ UNCHANGED sig_vars

\* The response or the failure has gone to the server; the request is over.
PipelineFinish(r) ==
    /\ req[r].pc \in {"returned", "raised", "rejected"}
    /\ req' = [req EXCEPT ![r] = IdleFrame]
    /\ sig_pc' = "idle"
    /\ secret' = <<>>
    /\ header_signature' = PyNone
    /\ request_body' = <<>>
    /\ algorithm' = <<>>
    /\ signature_digest' = <<>>
    /\ body_digest' = <<>>
    /\ sig_return' = "None"
    /\ sig_raised' = NoException
    /\ sig_steps' = <<>>
    /\ UNCHANGED sig_prev
    /\ UNCHANGED <<web_hook_event_map, listen_log>>

NextPipeline ==
    \/ \E event \in EventNames, f \in PipelineHandlers : Listen(event, f)
    \/ \E sig \in PipelineSignatures, body \in PipelineBodies, h \in RequestHeaders :
           PipelineArrive("r1", sig, body, h)
    \/ CheckHeaderPresent
    \/ SplitHeader
    \/ CheckAlgorithm
    \/ ComputeBodyDigest
    \/ CompareDigests
    \/ PipelineDispatch("r1")
    \/ PipelineAbort("r1")
    \/ ProcessLookup("r1")
    \/ ProcessCall("r1")
    \/ ProcessCallRaises("r1")
    \/ ProcessDefault("r1")
    \/ PipelineFinish("r1")

SpecPipeline == Init /\ [][NextPipeline]_vars

\* process has been entered for the request.
InProcess(r) == req[r].pc \in {"line75", "line82", "returned", "raised"}

C12_VerifiedBeforeDispatch ==
    \A r \in Requests :
        /\ (InProcess(r) \/ req[r].calls # <<>>)
               => /\ SigSucceeded
                  /\ secret = WEBHOOK_SECRET
                  /\ header_signature = PyStr(ValidHeader(secret, request_body))
                  /\ req[r].data = get_json(request_body)
        /\ (sig_pc = "raised" /\ req[r].pc # "idle")
               => /\ req[r].pc \in {"verifying", "rejected"}
                  /\ req[r].calls = <<>>

C12_NoRetry ==
    sig_pc = "raised"
        => /\ sig_pc' \in {"raised", "idle"}
           /\ sig_pc' = "idle" => req'["r1"].pc = "idle"
           /\ sig_pc' = "raised" => req'["r1"].calls = <<>>

\* C12: in the ingress pipeline a handler is invoked for a request only after
\* check_signature has returned True for the configured secret and that
\* request's signature header and raw body; a check that raised ends the
\* request with no dispatch, and is not run again for it.
C12_VerificationGatesDispatch ==
    []C12_VerifiedBeforeDispatch /\ [][C12_NoRetry]_vars

\* A request with the valid digest of another body is rejected although a
\* handler is registered for its event.
C12_Witness ==
    /\ req["r1"].pc = "rejected"
    /\ SignatureMismatch(sig_raised)
    /\ req["r1"].calls = <<>>
    /\ RegisteredFor(NamedEvent("r1")) # <<>>

(***************************************************************************)
(* Further properties of check_signature (specification SpecSig).          *)
(***************************************************************************)
\* The header is a str with more than one "=".
SeveralSeparators ==
    /\ header_signature.t = "str"
    /\ Cardinality({i \in 1..Len(header_signature.v) :
                        header_signature.v[i] = "="}) >= 2

\* The text of the header before its first "=".
BeforeFirstEq == SubSeq(header_signature.v, 1, FirstEq(header_signature.v) - 1)

\* C14 as stated: the header is split on its first "=" only, so with more
\* than one "=" a header "sha1=..." reaches the comparison and fails with
\* SignatureMismatch, any other algorithm fails with UnsupportedAlgorithm,
\* and no such header is reported as malformed.
C14_SplitOnFirstOnly ==
    (SigFinished /\ SeveralSeparators)
        => /\ SigFailed
           /\ ~MalformedSignatureHeader(sig_raised)
           /\ BeforeFirstEq = SHA1Name => SignatureMismatch(sig_raised)
           /\ BeforeFirstEq # SHA1Name => UnsupportedAlgorithm(sig_raised)

\* C14 as amended: the header is split on every "=" and must give exactly two
\* parts, so a header with more than one "=" fails at line 33 with the
\* malformed-header failure (too many values to unpack) whatever its
\* algorithm name, before the algorithm check and the digest comparison.
C14_ExtraSeparatorMalformed ==
    (SigFinished /\ SeveralSeparators)
        => /\ SigFailed
           /\ sig_raised = UnpackError(3)
           /\ MalformedSignatureHeader(sig_raised)
           /\ ~SignatureMismatch(sig_raised)
           /\ ~UnsupportedAlgorithm(sig_raised)
           /\ sig_steps = <<"truth", "split">>
           /\ algorithm = <<>>
           /\ signature_digest = <<>>

\* "sha1=<the valid digest>=a".
C14_Witness ==
    /\ SigFailed
    /\ header_signature =
           PyStr(ValidHeader(secret, request_body) \o <<"=", "a">>)
    /\ MalformedSignatureHeader(sig_raised)

(***************************************************************************)
(* Further properties of the dispatcher (specification Spec).              *)
(***************************************************************************)
\* An empty value in the sense of C15: nothing, or an empty object.
IsEmptyValue(v) == v \in {"None", "{}"}

\* The values the handlers invoked for r returned, in order of invocation.
ReturnedValues(r) ==
    [j \in 1..Len(req[r].calls) |-> HandlerResult(req[r].calls[j].f)]

ProcessStepWithoutRegistration == req' # req /\ listen_log' = listen_log

C16_RegistryUntouched ==
    ProcessStepWithoutRegistration
        => /\ web_hook_event_map' = web_hook_event_map
           /\ DOMAIN web_hook_event_map' = DOMAIN web_hook_event_map

\* C16: the registry is read-only during request handling: no step of a
\* process call whose handlers register nothing changes the registry, its set
\* of event-name keys included, whether or not a handler is registered for
\* the event.
C16_RegistryReadOnly == [][C16_RegistryUntouched]_vars

(***************************************************************************)
(* Serving: every registration is made before the first request, then any  *)
(* number of process calls run, here two at a time, their steps            *)
(* interleaved.  No handler registers.                                     *)
(***************************************************************************)
ServeHandlers == {"returns_none", "returns_x", "returns_empty", "raises"}

RECURSIVE StartupLogs(_)
\* The sequences of at most n listen calls.
StartupLogs(n) ==
    IF n = 0 THEN {<<>>}
    ELSE LET shorter == StartupLogs(n - 1)
         IN  shorter \cup {Append(l, <<e, f>>) :
                               l \in shorter, e \in EventNames, f \in ServeHandlers}

RECURSIVE RegistryOf(_)
\* The registry after the listen calls of log, from the empty one of line 62.
RegistryOf(log) ==
    IF log = <<>> THEN EmptyDict
    ELSE LET last == log[Len(log)]
         IN  registered(RegistryOf(SubSeq(log, 1, Len(log) - 1)), last[1], last[2])

InitServe ==
    /\ SigIdle
    /\ listen_log \in StartupLogs(MaxListen)
    /\ web_hook_event_map = RegistryOf(listen_log)
    /\ req = [r \in Requests |-> IdleFrame]

\* The payloads of the two requests differ.
ServePayload(r) == IF r = "r1" THEN "payload1" ELSE "payload2"

NextServe ==
    \E r \in Requests :
        \/ \E h \in RequestHeaders : Receive(r, h, ServePayload(r))
        \/ ProcessLookup(r)
        \/ ProcessCall(r)
        \/ ProcessCallRaises(r)
        \/ ProcessDefault(r)
        \/ Finish(r)

SpecServe == InitServe /\ [][NextServe]_vars

RECURSIVE SequentialCalls(_)
\* The handlers a dispatch over the sequence l alone invokes, in order.
SequentialCalls(l) ==
    IF l = <<>> THEN <<>>
    ELSE IF HandlerRaises(Head(l)) \/ HandlerResult(Head(l)) # "None"
         THEN <<Head(l)>>
         ELSE <<Head(l)>> \o SequentialCalls(Tail(l))

RECURSIVE SequentialOutcome(_)
\* How a dispatch over the sequence l alone ends.
SequentialOutcome(l) ==
    IF l = <<>>
    THEN [pc |-> "returned", result |-> "{'status': 'OK'}", raised |-> "None"]
    ELSE IF HandlerRaises(Head(l))
    THEN [pc |-> "raised", result |-> "None", raised |-> "HandlerError"]
    ELSE IF HandlerResult(Head(l)) # "None"
    THEN [pc |-> "returned", result |-> HandlerResult(Head(l)), raised |-> "None"]
    ELSE SequentialOutcome(Tail(l))

CalledHandlers(r) == [j \in 1..Len(req[r].calls) |-> req[r].calls[j].f]

\* C17: with every registration made before the first request, process
\* calls whose steps interleave, for the same or different events, known or
\* unknown, each invoke the handlers a sequential dispatch over the startup
\* sequence of their event invokes, in that order and with their own payload,
\* and end as that dispatch ends; the sequences held stay the startup ones.
C17_ConcurrentAsSequential ==
    /\ \A e \in AllEvents : Held(web_hook_event_map, e) = RegisteredFor(e)
    /\ \A r \in Requests :
           Dispatching(r) =>
               LET l == RegisteredFor(NamedEvent(r))
               IN  /\ IsPrefix(CalledHandlers(r), SequentialCalls(l))
                   /\ \A j \in 1..Len(req[r].calls) :
                          req[r].calls[j].arg = ServePayload(r)
                   /\ req[r].pc \in {"returned", "raised"}
                          => /\ CalledHandlers(r) = SequentialCalls(l)
                             /\ req[r].pc = SequentialOutcome(l).pc
                             /\ req[r].result = SequentialOutcome(l).result
                             /\ req[r].raised = SequentialOutcome(l).raised

\* Two calls for the same event in progress at once: one has returned the
\* second handler's value while the other has invoked the first handler only.
C17_Witness ==
    /\ req["r1"].pc = "returned"
    /\ req["r1"].result = "{'x': 1}"
    /\ Len(req["r1"].calls) = 2
    /\ req["r2"].pc = "line82"
    /\ Len(req["r2"].calls) = 1
    /\ req["r2"].event = req["r1"].event

(***************************************************************************)
(* check_signature called twice with the same arguments, the registry      *)
(* changing in between.                                                    *)
(***************************************************************************)
\* How the call in progress has ended.
SigOutcome ==
    [called |-> TRUE, pc |-> sig_pc, return |-> sig_return, raised |-> sig_raised]

\* The call has ended; check_signature is called again, same arguments.
SigCallAgain ==
    /\ SigFinished
    /\ ~sig_prev.called
    /\ sig_prev' = SigOutcome
    /\ sig_pc' = "line30"
    /\ algorithm' = <<>>
    /\ signature_digest' = <<>>
    /\ body_digest' = <<>>
    /\ sig_return' = "None"
    /\ sig_raised' = NoException
    /\ sig_steps' = <<>>
    /\ UNCHANGED <<secret, header_signature, request_body>>
    /\ UNCHANGED disp_vars

\* One registration, at any moment.
SigListen ==
    /\ listen_log = <<>>
    /\ Listen("push", "returns_x")

NextSigTwice ==
    \/ CheckHeaderPresent
    \/ SplitHeader
    \/ CheckAlgorithm
    \/ ComputeBodyDigest
    \/ CompareDigests
    \/ SigCallAgain
    \/ SigListen

SpecSigTwice == InitSig /\ [][NextSigTwice]_vars

C18_SameOutcome ==
    (SigFinished /\ sig_prev.called) => SigOutcome = sig_prev

\* A statement of check_signature has been executed.
SigStatement == sig_pc # "idle" /\ sig_steps' # sig_steps /\ sig_steps' # <<>>

C18_NoSideEffect ==
    SigStatement
        => /\ web_hook_event_map' = web_hook_event_map
           /\ listen_log' = listen_log
           /\ req' = req
           /\ secret' = secret
           /\ header_signature' = header_signature
           /\ request_body' = request_body

\* C18: check_signature is a pure function of its arguments: none of its
\* statements changes the registry, the requests or its arguments, whether
\* it ends by returning or by raising, and a second call with the same
\* (secret, header, body) ends as the first did, whatever happened to the
\* registry in between.
C18_PureFunction == []C18_SameOutcome /\ [][C18_NoSideEffect]_vars

\* The second call with a valid header returned True as the first did, a
\* handler having been registered between the two.
C18_Witness ==
    /\ SigSucceeded
    /\ sig_prev.called
    /\ sig_prev.pc = "returned"
    /\ listen_log # <<>>
    /\ "push" \in DOMAIN web_hook_event_map

(***************************************************************************)
(* Registration while a dispatch is in progress (specification Spec).      *)
(***************************************************************************)
\* C19 as stated: a process call invokes only the handlers that were in its
\* event's list when the list was looked up, so it makes at most that many
\* invocations; a registration made during the dispatch adds none.
C19_OnlyInitialHandlers ==
    \A r \in Requests : Dispatching(r) => Len(req[r].calls) <= req[r].n0

C19_LiveInvocations ==
    \A r \in Requests :
        Dispatching(r) =>
            /\ Len(req[r].calls) <= Len(RegisteredFor(req[r].event))
            /\ \A j \in (req[r].n0 + 1)..Len(req[r].calls) :
                   req[r].calls[j].f = RegisteredFor(req[r].event)[j]

C19_EndsWhenExhausted ==
    \A r \in Requests :
        (req[r].pc = "line82" /\ req'[r].pc = "returned"
            /\ req'[r].result = "{'status': 'OK'}")
            => /\ Len(req'[r].calls) = Len(RegisteredFor(req[r].event))
               /\ Len(req'[r].calls) >= req[r].n0

\* C19 as amended: process iterates over the live list of its event.  A
\* handler registered for that event while the dispatch is in progress is
\* invoked by that dispatch too, after those already in the list, and the
\* dispatch ends by exhaustion only once every handler registered for the
\* event so far has been invoked: the invocations are bounded by the length
\* of the list when the dispatch ends, not when it began.
C19_DispatchOverLiveList == []C19_LiveInvocations /\ [][C19_EndsWhenExhausted]_vars

\* One handler in the list at the lookup; it registers another for the same
\* event, which the same dispatch then invokes.
C19_Witness ==
    /\ req["r1"].pc = "returned"
    /\ req["r1"].event = "push"
    /\ req["r1"].n0 = 1
    /\ req["r1"].calls = <<[f |-> "registers", arg |-> req["r1"].data],
                           [f |-> "returns_none", arg |-> req["r1"].data]>>
    /\ req["r1"].result = "{'status': 'OK'}"

=============================================================================
